---- MODULE Spec2Model ----
(***************************************************************************)
(* Model of crates/libtiny_client/src/stream.rs: the establishment of a    *)
(* Stream (new_tcp, new_tls), the TLS connector construction               *)
(* (tls_connector), the lazily initialised shared TLS_CONNECTOR and the    *)
(* StreamError classification, for both TLS back-ends (cfg features        *)
(* tls-native and tls-rustls).                                             *)
(***************************************************************************)
EXTENDS Integers, Sequences, FiniteSets, TLC

\* Number of concurrent establishment attempts (calls of new_tcp / new_tls).
NumAttempts == 2

Attempts == 1..NumAttempts

\* The two cfg features that select the TLS back-end.
Backends == {"native", "rustls"}

---------------------------------------------------------------------------
\* Option<&Vec<u8>>: the PEM bytes are a sequence of PEM sections.
None == [some |-> FALSE, pem |-> <<>>]
Some(pem) == [some |-> TRUE, pem |-> pem]

PemA == <<"CERT_A", "KEY_A">>
PemB == <<"CERT_B", "KEY_B">>
PemNoKey == <<"CERT_A">>
PemNoCert == <<"KEY_A">>

SaslInputs == {None, Some(PemA), Some(PemB), Some(PemNoKey), Some(PemNoCert)}

\* host_name: a name the server's certificate matches, a well-formed name it
\* does not match, or a string that is not a DNS name or IP address at all.
HostInputs == {"match", "mismatch", "invalid"}

IsCert(s) == s \in {"CERT_A", "CERT_B"}
IsKey(s) == s \in {"KEY_A", "KEY_B"}

RECURSIVE Filter(_, _)
Filter(seq, keep) ==
  IF seq = <<>> THEN <<>>
  ELSE IF keep[Head(seq)] THEN <<Head(seq)>> \o Filter(Tail(seq), keep)
       ELSE Filter(Tail(seq), keep)

\* rustls_pemfile::certs / pkcs8_private_keys: the sections of that kind.
certs(pem) == Filter(pem, [s \in {"CERT_A", "CERT_B", "KEY_A", "KEY_B"} |-> IsCert(s)])
pkcs8_private_keys(pem) == Filter(pem, [s \in {"CERT_A", "CERT_B", "KEY_A", "KEY_B"} |-> IsKey(s)])

\* Vec::pop: the last element, if any.
pop(v) == IF v = <<>> THEN "none" ELSE v[Len(v)]

NoIdentity == [cert |-> "none", key |-> "none"]

\* The value of a call of tls_connector: a connector carrying an identity,
\* or a panic (expect / unwrap on an Err or None).
Connector(identity) == [panic |-> FALSE, identity |-> identity]
Panicked == [panic |-> TRUE, identity |-> NoIdentity]

\* tls-native: Identity::from_pkcs8(pem, pem).expect(..), builder.build().unwrap()
tls_connector_native(sasl, platformOk) ==
  IF sasl.some /\ (pop(certs(sasl.pem)) = "none" \/ pop(pkcs8_private_keys(sasl.pem)) = "none")
  THEN Panicked
  ELSE IF ~platformOk THEN Panicked
  ELSE IF sasl.some
       THEN Connector([cert |-> pop(certs(sasl.pem)), key |-> pop(pkcs8_private_keys(sasl.pem))])
       ELSE Connector(NoIdentity)

\* tls-rustls: load_native_certs().expect(..), then the certificate and the
\* private key are extracted, each with .pop().expect(..)
tls_connector_rustls(sasl, platformOk) ==
  IF ~platformOk THEN Panicked
  ELSE IF sasl.some
       THEN IF pop(certs(sasl.pem)) = "none" THEN Panicked
            ELSE IF pop(pkcs8_private_keys(sasl.pem)) = "none" THEN Panicked
            ELSE Connector([cert |-> pop(certs(sasl.pem)), key |-> pop(pkcs8_private_keys(sasl.pem))])
       ELSE Connector(NoIdentity)

\* Variant: the extracted certificate and key are passed on without the
\* expect on a missing one.
tls_connector_unchecked(be, sasl, platformOk) ==
  IF ~platformOk THEN Panicked
  ELSE IF sasl.some
       THEN Connector([cert |-> pop(certs(sasl.pem)), key |-> pop(pkcs8_private_keys(sasl.pem))])
       ELSE Connector(NoIdentity)

tls_connector(be, sasl, platformOk) ==
  IF be = "native" THEN tls_connector_native(sasl, platformOk)
  ELSE tls_connector_rustls(sasl, platformOk)

---------------------------------------------------------------------------
\* enum StreamError and its From impls
From_TlsError == "TlsError"
From_IoError == "IoError"

\* The error type of `connector.connect(..).await`, converted by `?`:
\* tokio_native_tls yields native_tls::Error, tokio_rustls yields
\* std::io::Error.
HandshakeError(be) == IF be = "native" THEN From_TlsError ELSE From_IoError

\* ServerName::try_from(host_name) succeeds on a DNS name or an IP address.
ServerNameOk(host) == host # "invalid"

---------------------------------------------------------------------------
VARIABLES
  backend,        \* the cfg feature the crate was built with
  pc,             \* position of each attempt in new_tcp / new_tls
  kind,           \* "tcp" (new_tcp) or "tls" (new_tls)
  host,           \* the host_name argument
  sasl,           \* the sasl argument
  tcp,            \* where the attempt's TcpStream is
  ctx,            \* the connector the attempt holds
  hs,             \* the handshake the attempt started, if any
  result,         \* what the call returned
  built,          \* connectors built by tls_connector(Some(..)) in the attempt
  once,           \* state of the Once guarding the lazy static
  TLS_CONNECTOR,  \* the lazy static's value
  initRuns,       \* how many times the lazy initialiser ran
  nextCtx,        \* allocation counter: identity of the next connector object
  issued,         \* polls the owning task issued on the attempt's Stream
  seen,           \* polls the underlying connections received
  last,           \* outcome of the last poll: the inner one and the returned one
  rawIn,          \* bytes consumed from the raw connection
  rawOut,         \* bytes put on the raw connection
  got,            \* bytes the caller's reads observed
  put             \* bytes of the caller's writes that were accepted

\* The state of the Streams' I/O.
ioVars == <<issued, seen, last, rawIn, rawOut, got, put>>

vars == <<backend, pc, kind, host, sasl, tcp, ctx, hs, result, built,
          once, TLS_CONNECTOR, initRuns, nextCtx,
          issued, seen, last, rawIn, rawOut, got, put>>

NoCtx == [src |-> "none", id |-> 0, identity |-> NoIdentity]
NoHs == [started |-> FALSE, ctxid |-> 0, src |-> "none", identity |-> NoIdentity, name |-> "none"]

\* TlsConnector::connect(name, tcp_stream): the handshake is driven with the
\* configuration of the connector it is called on.
connect(c, name) ==
  [started |-> TRUE, ctxid |-> c.id, src |-> c.src, identity |-> c.identity, name |-> name]

\* Whether the handshake can succeed: the peer's certificate matches the
\* name and the peer accepts the session.
HandshakeOk(h, peerOk) == peerOk /\ h.name = "match"

\* Variant: the connect error converted as a TLS error.
new_tcp_result_tls(connOk) == IF connOk THEN "TcpStream" ELSE From_TlsError

\* new_tcp, line 109: Ok(Stream::TcpStream(..)) or the io::Error through `?`.
new_tcp_result(connOk) == IF connOk THEN "TcpStream" ELSE From_IoError

\* Variant: a failed handshake falls back to the plain connection.
new_tls_result_fallback(be, hsOk) == IF hsOk THEN "TlsStream" ELSE "TcpStream"

\* new_tls, lines 121-125 / 140-144.
new_tls_result(be, hsOk) == IF hsOk THEN "TlsStream" ELSE HandshakeError(be)

\* Poll<Result<_, std::io::Error>>: Pending, Ready(Ok(n)) or Ready(Err(e)).
Pending == [kind |-> "Pending", n |-> 0, err |-> "none"]
Ok(n) == [kind |-> "Ok", n |-> n, err |-> "none"]
Err(e) == [kind |-> "Err", n |-> 0, err |-> e]

\* No poll was made yet.
NoPoll == [inner |-> [kind |-> "none", n |-> 0, err |-> "none"],
           ret |-> [kind |-> "none", n |-> 0, err |-> "none"]]

Init ==
  /\ backend \in Backends
  /\ pc = [a \in Attempts |-> "idle"]
  /\ kind = [a \in Attempts |-> "none"]
  /\ host = [a \in Attempts |-> "none"]
  /\ sasl = [a \in Attempts |-> None]
  /\ tcp = [a \in Attempts |-> "none"]
  /\ ctx = [a \in Attempts |-> NoCtx]
  /\ hs = [a \in Attempts |-> NoHs]
  /\ result = [a \in Attempts |-> "none"]
  /\ built = [a \in Attempts |-> 0]
  /\ once = "incomplete"
  /\ TLS_CONNECTOR = NoCtx
  /\ initRuns = 0
  /\ nextCtx = 1
  /\ issued = [a \in Attempts |-> <<>>]
  /\ seen = [a \in Attempts |-> <<>>]
  /\ last = [a \in Attempts |-> NoPoll]
  /\ rawIn = [a \in Attempts |-> 0]
  /\ rawOut = [a \in Attempts |-> <<>>]
  /\ got = [a \in Attempts |-> <<>>]
  /\ put = [a \in Attempts |-> <<>>]

\* A caller invokes Stream::new_tcp(addr); the call suspends in
\* TcpStream::connect(addr).await.
Call_new_tcp(a) ==
  /\ pc[a] = "idle"
  /\ pc' = [pc EXCEPT ![a] = "tcp_connect"]
  /\ kind' = [kind EXCEPT ![a] = "tcp"]
  /\ tcp' = [tcp EXCEPT ![a] = "connecting"]
  /\ UNCHANGED ioVars
  /\ UNCHANGED <<backend, host, sasl, ctx, hs, result, built, once,
                 TLS_CONNECTOR, initRuns, nextCtx>>

\* Variant: the shared connector is initialised when new_tls is entered.
new_tls_call_eager(a, h, s) ==
  /\ pc[a] = "idle"
  /\ host' = [host EXCEPT ![a] = h]
  /\ sasl' = [sasl EXCEPT ![a] = s]
  /\ pc' = [pc EXCEPT ![a] = "tcp_connect"]
  /\ kind' = [kind EXCEPT ![a] = "tls"]
  /\ tcp' = [tcp EXCEPT ![a] = "connecting"]
  /\ IF once = "incomplete"
     THEN /\ once' = "complete"
          /\ TLS_CONNECTOR' = [src |-> "default", id |-> nextCtx, identity |-> NoIdentity]
          /\ nextCtx' = nextCtx + 1
          /\ initRuns' = initRuns + 1
     ELSE UNCHANGED <<once, TLS_CONNECTOR, nextCtx, initRuns>>
  /\ UNCHANGED ioVars
  /\ UNCHANGED <<backend, ctx, hs, result, built>>

\* A caller invokes Stream::new_tls(addr, h, s); the call suspends in
\* TcpStream::connect(addr).await.
new_tls_call(a, h, s) ==
  /\ pc[a] = "idle"
  /\ host' = [host EXCEPT ![a] = h]
  /\ sasl' = [sasl EXCEPT ![a] = s]
  /\ pc' = [pc EXCEPT ![a] = "tcp_connect"]
  /\ kind' = [kind EXCEPT ![a] = "tls"]
  /\ tcp' = [tcp EXCEPT ![a] = "connecting"]
  /\ UNCHANGED ioVars
  /\ UNCHANGED <<backend, ctx, hs, result, built, once,
                 TLS_CONNECTOR, initRuns, nextCtx>>

\* new_tls called with any host name and any sasl argument.
Call_new_tls(a) == \E h \in HostInputs, s \in SaslInputs : new_tls_call(a, h, s)

\* new_tcp: TcpStream::connect(addr).await completes.
new_tcp(a) ==
  /\ pc[a] = "tcp_connect" /\ kind[a] = "tcp"
  /\ \E connOk \in BOOLEAN :
       /\ result' = [result EXCEPT ![a] = new_tcp_result(connOk)]
       /\ tcp' = [tcp EXCEPT ![a] = IF connOk THEN "in_stream" ELSE "failed"]
  /\ pc' = [pc EXCEPT ![a] = "done"]
  /\ UNCHANGED ioVars
  /\ UNCHANGED <<backend, kind, host, sasl, ctx, hs, built, once,
                 TLS_CONNECTOR, initRuns, nextCtx>>

\* Where new_tls goes after the raw connection is open: tls-rustls converts
\* the host name first (line 137), tls-native goes to the connector choice.
AfterConnect(be) == IF be = "rustls" THEN "server_name" ELSE "select"

\* Variant: the result of the raw connect is not checked before going on.
new_tls_connect_unchecked(a) ==
  /\ pc[a] = "tcp_connect" /\ kind[a] = "tls"
  /\ \E connOk \in BOOLEAN :
       /\ tcp' = [tcp EXCEPT ![a] = IF connOk THEN "local" ELSE "failed"]
       /\ pc' = [pc EXCEPT ![a] = AfterConnect(backend)]
       /\ UNCHANGED result
  /\ UNCHANGED ioVars
  /\ UNCHANGED <<backend, kind, host, sasl, ctx, hs, built, once,
                 TLS_CONNECTOR, initRuns, nextCtx>>

\* new_tls: `let tcp_stream = TcpStream::connect(addr).await?;`
new_tls_connect(a) ==
  /\ pc[a] = "tcp_connect" /\ kind[a] = "tls"
  /\ \E connOk \in BOOLEAN :
       IF connOk
       THEN /\ tcp' = [tcp EXCEPT ![a] = "local"]
            /\ pc' = [pc EXCEPT ![a] = AfterConnect(backend)]
            /\ UNCHANGED result
       ELSE /\ tcp' = [tcp EXCEPT ![a] = "failed"]
            /\ pc' = [pc EXCEPT ![a] = "done"]
            /\ result' = [result EXCEPT ![a] = From_IoError]
  /\ UNCHANGED ioVars
  /\ UNCHANGED <<backend, kind, host, sasl, ctx, hs, built, once,
                 TLS_CONNECTOR, initRuns, nextCtx>>

\* tls-rustls: `let name = ServerName::try_from(host_name).unwrap();`
new_tls_server_name(a) ==
  /\ pc[a] = "server_name"
  /\ IF ServerNameOk(host[a])
     THEN /\ pc' = [pc EXCEPT ![a] = "select"]
          /\ UNCHANGED <<tcp, result>>
     ELSE /\ pc' = [pc EXCEPT ![a] = "done"]
          /\ tcp' = [tcp EXCEPT ![a] = "released"]
          /\ result' = [result EXCEPT ![a] = "Panic"]
  /\ UNCHANGED ioVars
  /\ UNCHANGED <<backend, kind, host, sasl, ctx, hs, built, once,
                 TLS_CONNECTOR, initRuns, nextCtx>>

\* Variant: the shared connector is used whatever sasl is.
UsesFresh_never(s) == FALSE

\* `if sasl.is_some()`: which connector the handshake is called on.
UsesFresh(s) == s.some

\* Variant: the connector built for the attempt is kept in the static.
new_tls_fresh_cached(a) ==
  /\ pc[a] = "select" /\ sasl[a].some
  /\ \E platformOk \in BOOLEAN :
       LET c == tls_connector(backend, sasl[a], platformOk) IN
       IF c.panic
       THEN /\ pc' = [pc EXCEPT ![a] = "done"]
            /\ tcp' = [tcp EXCEPT ![a] = "released"]
            /\ result' = [result EXCEPT ![a] = "Panic"]
            /\ UNCHANGED <<ctx, hs, built, nextCtx, TLS_CONNECTOR, once>>
       ELSE LET fresh == [src |-> "fresh", id |-> nextCtx, identity |-> c.identity] IN
            /\ ctx' = [ctx EXCEPT ![a] = fresh]
            /\ built' = [built EXCEPT ![a] = @ + 1]
            /\ nextCtx' = nextCtx + 1
            /\ hs' = [hs EXCEPT ![a] = connect(fresh, host[a])]
            /\ tcp' = [tcp EXCEPT ![a] = "in_handshake"]
            /\ pc' = [pc EXCEPT ![a] = "handshake"]
            /\ TLS_CONNECTOR' = IF once = "running" THEN TLS_CONNECTOR
                                ELSE [fresh EXCEPT !.src = "default"]
            /\ once' = IF once = "running" THEN once ELSE "complete"
            /\ UNCHANGED result
  /\ UNCHANGED ioVars
  /\ UNCHANGED <<backend, kind, host, sasl, initRuns>>

\* `tls_connector(sasl).connect(name, tcp_stream)`: a connector is built for
\* this attempt and the handshake is started on it.
new_tls_fresh(a) ==
  /\ pc[a] = "select" /\ UsesFresh(sasl[a])
  /\ \E platformOk \in BOOLEAN :
       LET c == tls_connector(backend, sasl[a], platformOk) IN
       IF c.panic
       THEN /\ pc' = [pc EXCEPT ![a] = "done"]
            /\ tcp' = [tcp EXCEPT ![a] = "released"]
            /\ result' = [result EXCEPT ![a] = "Panic"]
            /\ UNCHANGED <<ctx, hs, built, nextCtx>>
       ELSE LET fresh == [src |-> "fresh", id |-> nextCtx, identity |-> c.identity] IN
            /\ ctx' = [ctx EXCEPT ![a] = fresh]
            /\ built' = [built EXCEPT ![a] = @ + 1]
            /\ nextCtx' = nextCtx + 1
            /\ hs' = [hs EXCEPT ![a] = connect(fresh, host[a])]
            /\ tcp' = [tcp EXCEPT ![a] = "in_handshake"]
            /\ pc' = [pc EXCEPT ![a] = "handshake"]
            /\ UNCHANGED result
  /\ UNCHANGED ioVars
  /\ UNCHANGED <<backend, kind, host, sasl, once, TLS_CONNECTOR, initRuns>>

\* Variant: no waiting for a running initialiser, it is run again.
LazyStep_racy(o) ==
  CASE o = "incomplete" -> "init"
    [] o = "running" -> "init"
    [] o = "complete" -> "use"
    [] o = "poisoned" -> "panic"

\* What a dereference of the lazy static does, by the state of its Once:
\* run the initialiser, wait for the running one, use the value, or panic
\* on a poisoned Once.
LazyStep(o) ==
  CASE o = "incomplete" -> "init"
    [] o = "running" -> "wait"
    [] o = "complete" -> "use"
    [] o = "poisoned" -> "panic"

\* `TLS_CONNECTOR.connect(name, tcp_stream)`: dereference of the lazy static.
new_tls_shared(a) ==
  /\ pc[a] = "select" /\ ~UsesFresh(sasl[a])
  /\ LazyStep(once) # "wait"
  /\ CASE LazyStep(once) = "init" ->
            /\ once' = "running"
            /\ pc' = [pc EXCEPT ![a] = "lazy_init"]
            /\ UNCHANGED <<tcp, ctx, hs, result>>
       [] LazyStep(once) = "use" ->
            /\ ctx' = [ctx EXCEPT ![a] = TLS_CONNECTOR]
            /\ hs' = [hs EXCEPT ![a] = connect(TLS_CONNECTOR, host[a])]
            /\ tcp' = [tcp EXCEPT ![a] = "in_handshake"]
            /\ pc' = [pc EXCEPT ![a] = "handshake"]
            /\ UNCHANGED <<once, result>>
       [] LazyStep(once) = "panic" ->
            /\ pc' = [pc EXCEPT ![a] = "done"]
            /\ tcp' = [tcp EXCEPT ![a] = "released"]
            /\ result' = [result EXCEPT ![a] = "Panic"]
            /\ UNCHANGED <<once, ctx, hs>>
  /\ UNCHANGED ioVars
  /\ UNCHANGED <<backend, kind, host, sasl, built, TLS_CONNECTOR, initRuns, nextCtx>>

\* The argument of the lazy initialiser: `tls_connector(None)`.
LazyInitArg(s) == None

\* The lazy initialiser `tls_connector(None)` finishes in the attempt that
\* ran it; the attempt then continues with the handshake.
lazy_init(a) ==
  /\ pc[a] = "lazy_init"
  /\ initRuns' = initRuns + 1
  /\ \E platformOk \in BOOLEAN :
       LET c == tls_connector(backend, LazyInitArg(sasl[a]), platformOk) IN
       IF c.panic
       THEN /\ once' = "poisoned"
            /\ pc' = [pc EXCEPT ![a] = "done"]
            /\ tcp' = [tcp EXCEPT ![a] = "released"]
            /\ result' = [result EXCEPT ![a] = "Panic"]
            /\ UNCHANGED <<ctx, hs, TLS_CONNECTOR, nextCtx>>
       ELSE LET shared == [src |-> "default", id |-> nextCtx, identity |-> c.identity] IN
            /\ once' = "complete"
            /\ TLS_CONNECTOR' = shared
            /\ nextCtx' = nextCtx + 1
            /\ ctx' = [ctx EXCEPT ![a] = shared]
            /\ hs' = [hs EXCEPT ![a] = connect(shared, host[a])]
            /\ tcp' = [tcp EXCEPT ![a] = "in_handshake"]
            /\ pc' = [pc EXCEPT ![a] = "handshake"]
            /\ UNCHANGED result
  /\ UNCHANGED ioVars
  /\ UNCHANGED <<backend, kind, host, sasl, built>>

\* Where the TcpStream is once the handshake is over: inside the TlsStream
\* on success, dropped with the failed handshake otherwise.
AfterHandshake(hsOk) == IF hsOk THEN "in_stream" ELSE "released"

\* `.connect(..).await?` completes and new_tls returns.
new_tls_handshake(a) ==
  /\ pc[a] = "handshake"
  /\ \E peerOk \in BOOLEAN :
       LET hsOk == HandshakeOk(hs[a], peerOk) IN
       /\ result' = [result EXCEPT ![a] = new_tls_result(backend, hsOk)]
       /\ tcp' = [tcp EXCEPT ![a] = AfterHandshake(hsOk)]
  /\ ctx' = [ctx EXCEPT ![a] = NoCtx]
  /\ pc' = [pc EXCEPT ![a] = "done"]
  /\ UNCHANGED ioVars
  /\ UNCHANGED <<backend, kind, host, sasl, hs, built, once,
                 TLS_CONNECTOR, initRuns, nextCtx>>

---------------------------------------------------------------------------
\* impl AsyncRead / AsyncWrite for Stream

\* Number of polls issued on one Stream.
MaxOps == 3

\* The plaintext the peer sends on the connection.
Incoming == <<1, 2>>

\* The polls a task issues: poll_read with a buffer of some capacity,
\* poll_write with some bytes, poll_flush, poll_shutdown.
PollInputs ==
  { [op |-> "poll_read", cap |-> Len(Incoming), data |-> <<>>],
    [op |-> "poll_read", cap |-> Len(Incoming) - 1, data |-> <<>>],
    [op |-> "poll_write", cap |-> 0, data |-> <<1, 2>>],
    [op |-> "poll_flush", cap |-> 0, data |-> <<>>],
    [op |-> "poll_shutdown", cap |-> 0, data |-> <<>>] }

Min(x, y) == IF x <= y THEN x ELSE y

\* Variant: every poll goes to the TcpStream.
Dispatch_plain(s) == "tcp_stream"

\* `match *self`: the connection the poll is forwarded to.
Dispatch(s) == IF s = "TcpStream" THEN "tcp_stream" ELSE "tls_stream"

\* What the underlying connection may answer to a poll; avail is the number
\* of plaintext bytes it can still deliver.  Both TcpStream and TlsStream
\* report their failures as std::io::Error.
InnerOutcomes(call, avail) ==
  {Pending, Err("IoError")} \cup
  CASE call.op = "poll_read" -> {Ok(n) : n \in 0..Min(call.cap, avail)}
    [] call.op = "poll_write" -> {Ok(n) : n \in 1..Len(call.data)}
    [] OTHER -> {Ok(0)}

\* The bytes on the raw connection for application bytes: a TlsStream
\* carries them in a record, a TcpStream as they are.
Frame(target, bytes) ==
  IF target = "tls_stream" /\ bytes # <<>> THEN <<0>> \o bytes ELSE bytes

\* Variant: an error of the encrypted connection is reported as a TLS error.
Returned_classified(target, o) ==
  IF target = "tls_stream" /\ o.kind = "Err" THEN Err("TlsError") ELSE o

\* The value of the match arm is the value of the poll.
Returned(target, o) == o

\* Variant: a flush right after a flush is not forwarded.
Forwarded_coalesced(log, target, call) ==
  IF log # <<>> /\ call.op = "poll_flush" /\ log[Len(log)].op = "poll_flush"
  THEN log
  ELSE Append(log, [target |-> target, op |-> call.op, cap |-> call.cap, data |-> call.data])

\* Each arm calls the same poll on the connection, with the same buffer.
Forwarded(log, target, call) ==
  Append(log, [target |-> target, op |-> call.op, cap |-> call.cap, data |-> call.data])

\* Variant: after a shutdown the encrypted stream goes on as a plain one.
StreamAfter_downgrade(s, call) ==
  IF s = "TlsStream" /\ call.op = "poll_shutdown" THEN "TcpStream" ELSE s

\* The arms borrow the boxed connection (`ref mut`): *self is not assigned.
StreamAfter(s, call) == s

\* Variant: shutdown takes the connection out of the Stream.
OwnerAfter_take(t, call) == IF call.op = "poll_shutdown" THEN "released" ELSE t

\* The connection stays boxed in the Stream.
OwnerAfter(t, call) == t

\* One poll_read / poll_write / poll_flush / poll_shutdown on the Stream the
\* attempt returned.
poll(a, call) ==
  /\ pc[a] = "done" /\ result[a] \in {"TcpStream", "TlsStream"}
  /\ Len(issued[a]) < MaxOps
  /\ tcp[a] = "in_stream"
  /\ LET target == Dispatch(result[a]) IN
     \E o \in InnerOutcomes(call, Len(Incoming) - Len(got[a])) :
          LET rd == IF call.op = "poll_read" /\ o.kind = "Ok"
                    THEN SubSeq(Incoming, Len(got[a]) + 1, Len(got[a]) + o.n) ELSE <<>>
              wr == IF call.op = "poll_write" /\ o.kind = "Ok"
                    THEN SubSeq(call.data, 1, o.n) ELSE <<>>
          IN
          /\ issued' = [issued EXCEPT ![a] = Append(@, call)]
          /\ seen' = [seen EXCEPT ![a] = Forwarded(@, target, call)]
          /\ last' = [last EXCEPT ![a] = [inner |-> o, ret |-> Returned(target, o)]]
          /\ got' = [got EXCEPT ![a] = @ \o rd]
          /\ rawIn' = [rawIn EXCEPT ![a] = @ + Len(Frame(target, rd))]
          /\ put' = [put EXCEPT ![a] = @ \o wr]
          /\ rawOut' = [rawOut EXCEPT ![a] = @ \o Frame(target, wr)]
          /\ result' = [result EXCEPT ![a] = StreamAfter(@, call)]
          /\ tcp' = [tcp EXCEPT ![a] = OwnerAfter(@, call)]
  /\ UNCHANGED <<backend, pc, kind, host, sasl, ctx, hs, built, once,
                 TLS_CONNECTOR, initRuns, nextCtx>>

\* Dropping the Stream drops the boxed connection.
DropReleases(t) == "released"

\* The owner drops the Stream, possibly while a poll is pending.
Drop(a) ==
  /\ pc[a] = "done" /\ result[a] \in {"TcpStream", "TlsStream"}
  /\ pc' = [pc EXCEPT ![a] = "dropped"]
  /\ tcp' = [tcp EXCEPT ![a] = DropReleases(@)]
  /\ UNCHANGED ioVars
  /\ UNCHANGED <<backend, kind, host, sasl, ctx, hs, result, built, once,
                 TLS_CONNECTOR, initRuns, nextCtx>>

\* Variant: the abandoned future keeps its socket open.
CancelReleases_leak(t) == t

\* Dropping the future of TcpStream::connect or of the handshake drops the
\* TcpStream it owns.
CancelReleases(t) == "released"

\* The caller abandons the future of new_tcp / new_tls at one of its await
\* points: the raw connect or the handshake.
Cancel(a) ==
  /\ pc[a] \in {"tcp_connect", "handshake"}
  /\ pc' = [pc EXCEPT ![a] = "cancelled"]
  /\ tcp' = [tcp EXCEPT ![a] = CancelReleases(@)]
  /\ ctx' = [ctx EXCEPT ![a] = NoCtx]
  /\ UNCHANGED ioVars
  /\ UNCHANGED <<backend, kind, host, sasl, hs, result, built, once,
                 TLS_CONNECTOR, initRuns, nextCtx>>

Next ==
  \E a \in Attempts :
    \/ Call_new_tcp(a)
    \/ Call_new_tls(a)
    \/ new_tcp(a)
    \/ new_tls_connect(a)
    \/ new_tls_server_name(a)
    \/ new_tls_fresh(a)
    \/ new_tls_shared(a)
    \/ lazy_init(a)
    \/ new_tls_handshake(a)

Spec == Init /\ [][Next]_vars

\* The attempt whose Stream is polled.
IoAttempt == CHOOSE a \in Attempts : \A b \in Attempts : a <= b

\* One attempt and the use of the Stream it returns.
NextIO ==
  \/ Call_new_tcp(IoAttempt)
  \/ Call_new_tls(IoAttempt)
  \/ new_tcp(IoAttempt)
  \/ new_tls_connect(IoAttempt)
  \/ new_tls_server_name(IoAttempt)
  \/ new_tls_fresh(IoAttempt)
  \/ new_tls_shared(IoAttempt)
  \/ lazy_init(IoAttempt)
  \/ new_tls_handshake(IoAttempt)
  \/ \E call \in PollInputs : poll(IoAttempt, call)
  \/ Drop(IoAttempt)

SpecIO == Init /\ [][NextIO]_vars

\* The arguments of new_tls where attempts are abandoned: a matching host
\* name, and no identity or a well-formed one.
CancelHosts == {"match"}
CancelSasl == {None, Some(PemA)}

\* The polls that are in flight when a Stream is dropped.
CancelPolls == {c \in PollInputs : c.op = "poll_read" /\ c.cap = Len(Incoming)}

\* Concurrent attempts that may be abandoned, and Streams that may be
\* dropped, one of them with polls in flight.
NextCancel ==
  \E a \in Attempts :
    \/ Call_new_tcp(a)
    \/ \E h \in CancelHosts, s \in CancelSasl : new_tls_call(a, h, s)
    \/ new_tcp(a)
    \/ new_tls_connect(a)
    \/ new_tls_server_name(a)
    \/ new_tls_fresh(a)
    \/ new_tls_shared(a)
    \/ lazy_init(a)
    \/ new_tls_handshake(a)
    \/ Cancel(a)
    \/ Drop(a)
    \/ \E call \in CancelPolls : poll(IoAttempt, call)

SpecCancel == Init /\ [][NextCancel]_vars

---------------------------------------------------------------------------
\* Vocabulary of the properties.
Streams == {"TcpStream", "TlsStream"}
Failures == {"IoError", "TlsError"}

\* The identity bytes lack a certificate or a private key.
Malformed(s) ==
  /\ s.some
  /\ \/ ~(\E i \in 1..Len(s.pem) : IsCert(s.pem[i]))
     \/ ~(\E i \in 1..Len(s.pem) : IsKey(s.pem[i]))

\* The raw connection of the attempt was opened.
RawOpened(a) == tcp[a] \in {"local", "in_handshake", "in_stream", "released"}

\* The handshake of the attempt was started and has failed.
HandshakeFailed(a) == pc[a] = "done" /\ hs[a].started /\ tcp[a] = "released"

\* The identity a handshake is to present for a sasl argument.
IdentityOf(s) ==
  IF s = Some(PemA) THEN [cert |-> "CERT_A", key |-> "KEY_A"]
  ELSE IF s = Some(PemB) THEN [cert |-> "CERT_B", key |-> "KEY_B"]
  ELSE NoIdentity

---------------------------------------------------------------------------
\* C1: a new_tls attempt whose raw connection succeeded and whose handshake
\* failed returns StreamError::TlsError, never IoError, and no Stream, in
\* both back-ends.
C1_HandshakeFailureIsTlsError ==
  \A a \in Attempts :
    (kind[a] = "tls" /\ HandshakeFailed(a)) => result[a] = "TlsError"

\* C2: with malformed identity bytes no handshake is ever started: the
\* identity is parsed before the handshake connect call, and a parse failure
\* ends the attempt with no connector built and no Stream; every handshake
\* of an attempt with an identity runs on a connector built from the parsed
\* identity.
C2_NoHandshakeOnMalformedIdentity ==
  \A a \in Attempts :
    /\ (kind[a] = "tls" /\ Malformed(sasl[a])) =>
         /\ ~hs[a].started
         /\ ctx[a] = NoCtx
         /\ built[a] = 0
         /\ result[a] \notin Streams
         /\ pc[a] # "handshake"
    /\ (kind[a] = "tls" /\ sasl[a].some /\ hs[a].started) =>
         /\ built[a] = 1
         /\ hs[a].identity.cert # "none"
         /\ hs[a].identity.key # "none"

C2_Witness ==
  \E a \in Attempts :
    /\ kind[a] = "tls" /\ Malformed(sasl[a]) /\ host[a] = "match"
    /\ pc[a] = "done" /\ tcp[a] = "released" /\ result[a] = "Panic"

\* C3: a malformed client identity makes new_tls return the Encryption
\* failure (StreamError::TlsError) to the caller, the raw connection being
\* discarded.
C3_MalformedIdentityReturnsTlsError ==
  \A a \in Attempts :
    (kind[a] = "tls" /\ Malformed(sasl[a]) /\ pc[a] = "done" /\ RawOpened(a)) =>
      (result[a] = "TlsError" /\ tcp[a] = "released")

\* C4: every attempt that ends without a Stream ends with a failure of one
\* of the two kinds, IoError or TlsError.
C4_EveryEndIsClassified ==
  \A a \in Attempts :
    pc[a] = "done" => result[a] \in Streams \cup Failures

\* C5: new_tcp returns Stream::TcpStream exactly when the raw connection
\* succeeded and StreamError::IoError when it failed; it never returns the
\* Encrypted variant or TlsError and never builds, holds or initialises a
\* connector.
C5_PlainState ==
  \A a \in Attempts :
    kind[a] = "tcp" =>
      /\ ctx[a] = NoCtx /\ ~hs[a].started /\ built[a] = 0
      /\ pc[a] # "done" => result[a] = "none"
      /\ pc[a] = "done" =>
           /\ result[a] \in {"TcpStream", "IoError"}
           /\ result[a] = "TcpStream" <=> tcp[a] = "in_stream"
           /\ result[a] = "IoError" <=> tcp[a] = "failed"

C5_PlainFrame ==
  \A a \in Attempts :
    (kind'[a] = "tcp" /\ pc'[a] # pc[a]) =>
      UNCHANGED <<once, TLS_CONNECTOR, initRuns, nextCtx, ctx, hs, built>>

C5_ConnectPlain == []C5_PlainState /\ [][C5_PlainFrame]_vars

C5_Witness ==
  /\ \E a \in Attempts : kind[a] = "tcp" /\ result[a] = "TcpStream"
  /\ \E a \in Attempts : kind[a] = "tcp" /\ result[a] = "IoError"

\* C6: in new_tls the raw connection comes first: when it fails the call
\* returns IoError, and no connector is obtained or built, no identity is
\* parsed and no handshake is started, whatever sasl and host_name are; the
\* connector is chosen and the handshake started only with the raw
\* connection open, the handshake on a connector already obtained.
C6_RawConnectionFirst ==
  \A a \in Attempts :
    kind[a] = "tls" =>
      /\ tcp[a] = "failed" =>
           /\ pc[a] = "done" /\ result[a] = "IoError"
           /\ ctx[a] = NoCtx /\ built[a] = 0 /\ ~hs[a].started
      /\ tcp[a] = "connecting" =>
           /\ ctx[a] = NoCtx /\ built[a] = 0 /\ ~hs[a].started
           /\ result[a] = "none"
      /\ pc[a] \in {"server_name", "select", "lazy_init", "handshake"} => RawOpened(a)
      /\ (ctx[a] # NoCtx \/ built[a] > 0) => RawOpened(a)
      /\ hs[a].started => (RawOpened(a) /\ hs[a].ctxid # 0)

C6_Witness ==
  \E a \in Attempts :
    /\ kind[a] = "tls" /\ tcp[a] = "failed" /\ pc[a] = "done"
    /\ Malformed(sasl[a]) /\ host[a] = "invalid"

\* C7: new_tls never falls back to plaintext: it yields Stream::TlsStream
\* exactly when the raw connection and the handshake both succeeded, never
\* Stream::TcpStream, and otherwise no Stream; after a failed handshake the
\* raw connection is released.
C7_NoPlaintextFallback ==
  \A a \in Attempts :
    kind[a] = "tls" =>
      /\ result[a] # "TcpStream"
      /\ pc[a] # "done" => result[a] = "none"
      /\ pc[a] = "done" =>
           /\ result[a] = "TlsStream" <=> (hs[a].started /\ tcp[a] = "in_stream")
           /\ result[a] # "TlsStream" => tcp[a] \in {"failed", "released"}
      /\ tcp[a] = "in_stream" => hs[a].name = "match"

C7_Witness ==
  /\ \E a \in Attempts : kind[a] = "tls" /\ result[a] = "TlsStream"
  /\ \E a \in Attempts : kind[a] = "tls" /\ HandshakeFailed(a)

\* C8: with a client identity a connector is built for the attempt by
\* tls_connector(Some(..)), used for one handshake only and dropped when the
\* attempt ends, never the handshake connector of another attempt; without
\* an identity the shared TLS_CONNECTOR is used and no connector is built
\* for the attempt.
C8_ContextSelection ==
  \A a \in Attempts :
    /\ (kind[a] = "tls" /\ sasl[a].some /\ hs[a].started) =>
         /\ hs[a].src = "fresh" /\ built[a] = 1
         /\ hs[a].ctxid # TLS_CONNECTOR.id
         /\ \A b \in Attempts \ {a} : hs[b].started => hs[b].ctxid # hs[a].ctxid
    /\ (kind[a] = "tls" /\ ~sasl[a].some) =>
         /\ built[a] = 0
         /\ hs[a].started => (hs[a].src = "default" /\ hs[a].ctxid = TLS_CONNECTOR.id)
    /\ built[a] <= 1
    /\ pc[a] = "done" => ctx[a] = NoCtx

C8_Witness ==
  \E a, b \in Attempts :
    /\ a # b /\ sasl[a] = Some(PemA) /\ sasl[b] = Some(PemA)
    /\ pc[a] = "done" /\ hs[a].started /\ hs[b].started

\* C9: the shared default connector never carries a client identity, every
\* connector built with an identity is another object than the shared
\* default, and each handshake presents exactly the identity passed to its
\* own attempt, or none.
C9_CredentialIsolation ==
  /\ TLS_CONNECTOR.identity = NoIdentity
  /\ \A a \in Attempts :
       /\ ctx[a].src = "fresh" => (ctx[a].id # TLS_CONNECTOR.id /\ ctx[a].identity # NoIdentity)
       /\ ctx[a].identity \in {NoIdentity, IdentityOf(sasl[a])}
       /\ hs[a].started => hs[a].identity = IdentityOf(sasl[a])

C9_Witness ==
  \E a, b \in Attempts :
    /\ pc[a] = "handshake" /\ pc[b] = "handshake"
    /\ sasl[a] = Some(PemA) /\ sasl[b] = Some(PemB)

\* C10: the lazy initialiser of TLS_CONNECTOR runs at most once, also when
\* several attempts without identity reach it concurrently; every attempt
\* using the shared default sees the one completed instance, and once
\* initialised it never changes.
C10_InitOnceState ==
  /\ initRuns <= 1
  /\ (TLS_CONNECTOR # NoCtx) <=> (once = "complete")
  /\ once = "complete" => (initRuns = 1 /\ TLS_CONNECTOR.src = "default")
  /\ Cardinality({a \in Attempts : pc[a] = "lazy_init"}) <= 1
  /\ \A a \in Attempts :
       (hs[a].started /\ hs[a].src = "default") =>
         (once = "complete" /\ hs[a].ctxid = TLS_CONNECTOR.id)

C10_InitOnceStep ==
  once = "complete" => (once' = once /\ TLS_CONNECTOR' = TLS_CONNECTOR /\ initRuns' = initRuns)

C10_SharedDefaultInitOnce == []C10_InitOnceState /\ [][C10_InitOnceStep]_vars

C10_Witness ==
  \E a, b \in Attempts :
    /\ a # b /\ initRuns = 1
    /\ hs[a].started /\ hs[a].src = "default"
    /\ hs[b].started /\ hs[b].src = "default"

---------------------------------------------------------------------------
\* The polls of a log, without the connection they went to.
Calls(log) == [i \in 1..Len(log) |-> [op |-> log[i].op, cap |-> log[i].cap, data |-> log[i].data]]

\* The connection a Stream of that variant wraps.
ConnectionOf(s) ==
  CASE s = "TcpStream" -> "tcp_stream"
    [] s = "TlsStream" -> "tls_stream"
    [] OTHER -> "none"

\* The number of poll_shutdown entries of a log.
Shutdowns(log) == Cardinality({i \in 1..Len(log) : log[i].op = "poll_shutdown"})

\* C11: through any sequence of polls, whatever their outcomes, the Stream
\* keeps the variant it was constructed with (TcpStream by new_tcp,
\* TlsStream by new_tls); no poll changes it.
C11_VariantOfConstructor ==
  \A a \in Attempts :
    /\ result[a] = "TcpStream" => kind[a] = "tcp"
    /\ result[a] = "TlsStream" => kind[a] = "tls"
    /\ issued[a] # <<>> => result[a] \in Streams

C11_VariantStep ==
  \A a \in Attempts : result[a] \in Streams => result'[a] = result[a]

C11_VariantFixed == []C11_VariantOfConstructor /\ [][C11_VariantStep]_vars

C11_Witness ==
  \E a \in Attempts :
    /\ result[a] = "TlsStream" /\ Len(issued[a]) >= 3
    /\ issued[a][2].op = "poll_shutdown" /\ last[a].ret.kind = "Err"

\* C12: each poll calls the same operation once on the connection of the
\* active variant, with the same buffer, and returns its outcome unchanged;
\* the Stream adds, drops or buffers no bytes: on a Plain stream the bytes
\* read and written are exactly those received and sent on the raw
\* connection.
C12_PollState ==
  \A a \in Attempts :
    /\ Len(seen[a]) = Len(issued[a])
    /\ \A i \in 1..Len(seen[a]) : seen[a][i].target = ConnectionOf(result[a])
    /\ last[a].ret = last[a].inner
    /\ result[a] = "TcpStream" =>
         /\ got[a] = SubSeq(Incoming, 1, rawIn[a])
         /\ put[a] = rawOut[a]

C12_PollStep ==
  \A a \in Attempts :
    issued'[a] # issued[a] =>
      /\ Len(seen'[a]) = Len(seen[a]) + 1
      /\ LET c == seen'[a][Len(seen'[a])]
             i == issued'[a][Len(issued'[a])]
         IN c.op = i.op /\ c.cap = i.cap /\ c.data = i.data
      /\ last'[a].ret.kind = "Ok" =>
           (Len(got'[a]) - Len(got[a])) + (Len(put'[a]) - Len(put[a])) = last'[a].ret.n

C12_TransparentDispatch == []C12_PollState /\ [][C12_PollStep]_vars

C12_Witness ==
  \E a \in Attempts :
    /\ result[a] = "TcpStream" /\ got[a] = Incoming /\ put[a] # <<>>
    /\ last[a].ret.kind = "Pending"

\* C13: every poll_shutdown issued reaches the underlying connection, on
\* either variant; a shutdown right after a shutdown returns Pending, Ok or
\* an error, and leaves the Stream's variant and its connection as they
\* were.
C13_ShutdownState ==
  \A a \in Attempts :
    /\ Shutdowns(seen[a]) = Shutdowns(issued[a])
    /\ (pc[a] = "done" /\ result[a] \in Streams) => tcp[a] = "in_stream"

C13_ShutdownStep ==
  \A a \in Attempts :
    ( /\ issued[a] # <<>>
      /\ issued[a][Len(issued[a])].op = "poll_shutdown"
      /\ Len(issued'[a]) = Len(issued[a]) + 1
      /\ issued'[a][Len(issued'[a])].op = "poll_shutdown" ) =>
        /\ result'[a] = result[a] /\ tcp'[a] = tcp[a] /\ pc'[a] = pc[a]
        /\ last'[a].ret \in {Pending, Ok(0), Err("IoError")}
        /\ seen'[a][Len(seen'[a])].op = "poll_shutdown"

C13_ShutdownTwice == []C13_ShutdownState /\ [][C13_ShutdownStep]_vars

C13_Witness ==
  \E a \in Attempts :
    /\ result[a] = "TlsStream" /\ Len(issued[a]) >= 3
    /\ issued[a][1].op = "poll_shutdown" /\ issued[a][2].op = "poll_shutdown"
    /\ issued[a][3].op = "poll_shutdown" /\ last[a].ret.kind = "Err"

\* C15: the polls reach the underlying connection in the order the owning
\* task issued them, none reordered, held back or merged.
C15_OrderPreserved ==
  \A a \in Attempts : Calls(seen[a]) = issued[a]

C15_Witness ==
  \E a \in Attempts :
    /\ Len(issued[a]) >= 3
    /\ issued[a][1].op = "poll_write" /\ issued[a][2].op = "poll_flush"
    /\ issued[a][3].op = "poll_flush"

\* C16: every failure a poll returns, on either variant, is a
\* std::io::Error; StreamError::TlsError comes only out of new_tls, from its
\* handshake, never out of new_tcp or a poll.
C16_ErrorKinds ==
  \A a \in Attempts :
    /\ last[a].ret.kind = "Err" => last[a].ret.err = "IoError"
    /\ result[a] = "TlsError" =>
         (kind[a] = "tls" /\ hs[a].started /\ issued[a] = <<>>)
    /\ kind[a] = "tcp" => result[a] # "TlsError"

C16_Witness ==
  \E a \in Attempts :
    /\ result[a] = "TlsStream" /\ last[a].ret = Err("IoError")
    /\ issued[a][Len(issued[a])].op = "poll_read"

---------------------------------------------------------------------------
\* What belongs to one attempt and its Stream.
Own(a) == <<pc[a], kind[a], host[a], sasl[a], tcp[a], ctx[a], hs[a], result[a],
            built[a], issued[a], seen[a], last[a], rawIn[a], rawOut[a], got[a], put[a]>>

\* C14: an attempt abandoned during the raw connect or the handshake, and a
\* Stream dropped (also with a poll pending), release their raw connection
\* and hold no connector; the step changes nothing of any other attempt or
\* Stream, nor the shared default connector.
C14_ReleasedState ==
  \A a \in Attempts :
    pc[a] \in {"cancelled", "dropped"} => (tcp[a] = "released" /\ ctx[a] = NoCtx)

C14_AbandonStep ==
  \A a \in Attempts :
    (pc'[a] \in {"cancelled", "dropped"} /\ pc[a] # pc'[a]) =>
      /\ tcp'[a] = "released" /\ ctx'[a] = NoCtx
      /\ \A b \in Attempts \ {a} : Own(b)' = Own(b)
      /\ UNCHANGED <<once, TLS_CONNECTOR, initRuns, nextCtx>>

C14_Cancellation == []C14_ReleasedState /\ [][C14_AbandonStep]_vars

C14_Witness ==
  \E a, b \in Attempts :
    /\ pc[a] = "dropped" /\ last[a].ret.kind = "Pending"
    /\ pc[b] = "cancelled" /\ hs[b].started /\ hs[b].src = "default"
    /\ once = "complete"

\* C17: the lazy static is initialised, and used, only by new_tls attempts
\* without client identity whose raw connection is open; new_tcp, new_tls
\* with an identity and new_tls with a failed raw connection neither
\* initialise nor use it.
C17_DefaultUsers ==
  \A a \in Attempts :
    (pc[a] = "lazy_init" \/ ctx[a].src = "default" \/ hs[a].src = "default") =>
      (kind[a] = "tls" /\ ~sasl[a].some /\ RawOpened(a))

C17_DefaultStep ==
  (once' # once \/ TLS_CONNECTOR' # TLS_CONNECTOR \/ initRuns' # initRuns) =>
    \E a \in Attempts :
      /\ pc'[a] # pc[a]
      /\ kind[a] = "tls" /\ ~sasl[a].some /\ tcp[a] = "local"
      /\ \A b \in Attempts \ {a} : pc'[b] = pc[b]

C17_DefaultInitFrame == []C17_DefaultUsers /\ [][C17_DefaultStep]_vars

C17_Witness ==
  \E a, b \in Attempts :
    /\ initRuns = 1 /\ hs[a].src = "default"
    /\ kind[b] = "tls" /\ ~sasl[b].some /\ tcp[b] = "failed"

====
